---- MODULE Spec2Model ----
(***************************************************************************)
(* Model of chess-engine/engines/dqn/nnet.py: the BoardEncoder functions   *)
(* (EncodeBoard, EncodeLegalMoves, DecodeMoves) and the ChessNet methods   *)
(* (forward, train).                                                       *)
(*                                                                         *)
(* Arrays are functions on 0..n-1, as in numpy.  A python-chess board is   *)
(* the record of what the code reads from it: piece_at, turn and           *)
(* legal_moves.  Calls into torch are modelled by the effect each call has *)
(* on well-formed arguments, with the layers and the optimizer taken as    *)
(* constructed; the weights of the layers are not represented, so the raw  *)
(* scores of the output heads are inputs of the model.                     *)
(***************************************************************************)
EXTENDS Integers, Sequences, FiniteSets, TLC

VARIABLES
    pc,            \* position of the running call
    board,         \* EncodeBoard / EncodeLegalMoves: the board argument
    encodedMove,   \* __main__: the 64x64 grid written before DecodeMoves
    ret,           \* value returned by the last encoder call
    s_shape,       \* forward: shape <<N, width>> of the input batch
    raw_pi,        \* forward: out1(s) before relu, one row per example
    raw_v,         \* forward: out2(s) before relu, one entry per example
    fwd,           \* forward: the returned pair, or None
    raised,        \* name of the exception that ended the call, or "None"
    examples,      \* train: number of examples, len(examples)
    batch_size,    \* train: batch_size argument
    cuda,          \* train: third positional argument
    epoch,         \* train: loop variable of line 54
    batch_idx,     \* train: loop variable of line 64
    sample_ids,    \* train: indices drawn at line 67
    out,           \* train: result of self.forward(boards) in this step
    total_loss,    \* train: l_pi + l_v of this step
    grad,          \* .grad buffers of the parameters: the losses accumulated
    params,        \* model parameters: number of optimizer updates applied
    params_before, \* train: params when the call started
    steps,         \* train: minibatch steps completed in this call
    events,        \* train: what the current minibatch step has done so far
    applied,       \* train: the grad buffer the last optimizer.step() read
    calls          \* train: calls of train made so far

encoderVars == <<board, encodedMove, ret>>
forwardVars == <<s_shape, raw_pi, raw_v, fwd>>
trainVars == <<examples, batch_size, cuda, epoch, batch_idx, sample_ids, out,
               total_loss, grad, params, params_before, steps, events,
               applied, calls>>
vars == <<pc, raised, encoderVars, forwardVars, trainVars>>

None == <<>>

----------------------------------------------------------------------------
(* chess constants and the boards given to the encoder *)

WHITE == TRUE
BLACK == FALSE
PAWN == 1
KNIGHT == 2
BISHOP == 3
ROOK == 4
QUEEN == 5
KING == 6

NumSquares == 64
Squares == 0..(NumSquares - 1)

Piece(color, piece_type) == [color |-> color, piece_type |-> piece_type]
Move(from_square, to_square, promotion) ==
    [from_square |-> from_square, to_square |-> to_square, promotion |-> promotion]

\* board.piece_at(square): the piece on the square, or None
piece_at(b, square) ==
    IF square \in DOMAIN b.pieces THEN b.pieces[square] ELSE None

BackRank == <<ROOK, KNIGHT, BISHOP, QUEEN, KING, BISHOP, KNIGHT, ROOK>>

\* chess.Board(): the standard starting position, white to move
StartPieces ==
    [sq \in (0..15) \cup (48..63) |->
        IF sq < 8 THEN Piece(WHITE, BackRank[sq + 1])
        ELSE IF sq < 16 THEN Piece(WHITE, PAWN)
        ELSE IF sq < 56 THEN Piece(BLACK, PAWN)
        ELSE Piece(BLACK, BackRank[sq - 55])]

WhiteFirstMoves ==
    {Move(sq, sq + 8, 0) : sq \in 8..15} \cup {Move(sq, sq + 16, 0) : sq \in 8..15}
    \cup {Move(1, 16, 0), Move(1, 18, 0), Move(6, 21, 0), Move(6, 23, 0)}

BlackFirstMoves ==
    {Move(sq, sq - 8, 0) : sq \in 48..55} \cup {Move(sq, sq - 16, 0) : sq \in 48..55}
    \cup {Move(57, 40, 0), Move(57, 42, 0), Move(62, 45, 0), Move(62, 47, 0)}

StartBoard == [pieces |-> StartPieces, turn |-> WHITE, legal_moves |-> WhiteFirstMoves]

\* the position after one white move from the starting position
AfterMove(m) ==
    [pieces |-> [sq \in (DOMAIN StartPieces \ {m.from_square}) \cup {m.to_square} |->
                    IF sq = m.to_square THEN StartPieces[m.from_square]
                    ELSE StartPieces[sq]],
     turn |-> BLACK,
     legal_moves |-> BlackFirstMoves]

Promotions == {QUEEN, ROOK, BISHOP, KNIGHT}

\* white Ka1, Ph7; black Ka3; white to move: Kb1 and h7-h8 with four promotions
PromotionBoard ==
    [pieces |-> (0 :> Piece(WHITE, KING)) @@ (55 :> Piece(WHITE, PAWN))
                @@ (16 :> Piece(BLACK, KING)),
     turn |-> WHITE,
     legal_moves |-> {Move(0, 1, 0)} \cup {Move(55, 63, p) : p \in Promotions}]

\* white Ka1, Rh1; black Ka8, Pg2; black to move: three king moves, g2-g1 and
\* g2xh1, each pawn move with four promotions
CapturePromotionBoard ==
    [pieces |-> (0 :> Piece(WHITE, KING)) @@ (7 :> Piece(WHITE, ROOK))
                @@ (56 :> Piece(BLACK, KING)) @@ (14 :> Piece(BLACK, PAWN)),
     turn |-> BLACK,
     legal_moves |-> {Move(56, 48, 0), Move(56, 49, 0), Move(56, 57, 0)}
                     \cup {Move(14, 6, p) : p \in Promotions}
                     \cup {Move(14, 7, p) : p \in Promotions}]

\* white Kc1, Qb6; black Ka8; black to move: stalemate, no legal move
StalemateBoard ==
    [pieces |-> (2 :> Piece(WHITE, KING)) @@ (41 :> Piece(WHITE, QUEEN))
                @@ (56 :> Piece(BLACK, KING)),
     turn |-> BLACK,
     legal_moves |-> {}]

Boards ==
    {StartBoard, PromotionBoard, CapturePromotionBoard, StalemateBoard}
    \cup {AfterMove(m) : m \in WhiteFirstMoves}

----------------------------------------------------------------------------
(* numpy helpers *)

\* np.zeros(n)
Zeros(n) == [i \in 0..(n - 1) |-> 0]

\* np.ones(n)
Ones(n) == [i \in 0..(n - 1) |-> 1]

\* np.zeros([n, m])
Zeros2(n, m) == [r \in 0..(n - 1) |-> Zeros(m)]

\* np.stack(rows).ravel() and grid.ravel(): the rows laid end to end
Ravel(rows, width) ==
    [i \in 0..(Cardinality(DOMAIN rows) * width - 1) |-> rows[i \div width][i % width]]

\* a.reshape(n, m)
Reshape(a, n, m) == [r \in 0..(n - 1) |-> [c \in 0..(m - 1) |-> a[r * m + c]]]

\* np.argwhere(grid == v): the <<row, column>> of each matching cell, row by row
ArgWhere(grid, n, m, v) ==
    LET cells == [k \in 1..(n * m) |-> <<(k - 1) \div m, (k - 1) % m>>]
        Matches(cell) == grid[cell[1]][cell[2]] = v
    IN  SelectSeq(cells, Matches)

\* np.sum(a) over the entries lo..hi of a
RECURSIVE SumRange(_, _, _)
SumRange(a, lo, hi) ==
    IF lo > hi THEN 0
    ELSE IF lo = hi THEN a[lo]
    ELSE LET mid == (lo + hi) \div 2
         IN  SumRange(a, lo, mid) + SumRange(a, mid + 1, hi)

Sum(a) == SumRange(a, 0, Cardinality(DOMAIN a) - 1)

----------------------------------------------------------------------------
(* class BoardEncoder *)

\* the (chess.WHITE, chess.BLACK) tuple of the outer loop of EncodeBoard
ColorOrder == <<WHITE, BLACK>>

\* the keys 1..6 set in d[color], in insertion order
PieceTypes == <<PAWN, KNIGHT, BISHOP, ROOK, QUEEN, KING>>

NumPieceTypes == 6
InputSize == 832
ActionSize == 4096

\* mutant of MapIndex: the black maps appended before the white ones
MapIndexBlackFirst(color, piece_type) ==
    (IF color = BLACK THEN 0 ELSE NumPieceTypes) + (piece_type - 1)

\* position in feature_maps of the array d[color][piece_type]
MapIndex(color, piece_type) ==
    LET c == CHOOSE k \in 1..Len(ColorOrder) : ColorOrder[k] = color
        t == CHOOSE k \in 1..Len(PieceTypes) : PieceTypes[k] = piece_type
    IN  (c - 1) * NumPieceTypes + (t - 1)

\* the turn map appended after the twelve piece maps
TurnMap(b) == IF b.turn = WHITE THEN Ones(NumSquares) ELSE Zeros(NumSquares)

\* the twelve piece maps after the loop over the squares
PieceMaps(b) ==
    [k \in 0..(Len(ColorOrder) * NumPieceTypes - 1) |->
        [square \in Squares |->
            LET piece == piece_at(b, square)
            IN  IF piece = None THEN 0
                ELSE IF MapIndex(piece.color, piece.piece_type) = k THEN 1
                ELSE 0]]

EncodeBoard(b) ==
    LET maps == PieceMaps(b)
        n == Cardinality(DOMAIN maps)
        feature_maps == [k \in 0..n |-> IF k < n THEN maps[k] ELSE TurnMap(b)]
    IN  Ravel(feature_maps, NumSquares)

\* mutant of EncodeLegalMoves: mask[from_square, to_square] += 1
EncodeLegalMovesCounting(b) ==
    LET mask == [f \in Squares |-> [t \in Squares |->
                    Cardinality({move \in b.legal_moves :
                          move.from_square = f /\ move.to_square = t})]]
    IN  Ravel(mask, NumSquares)

EncodeLegalMoves(b) ==
    LET mask == [f \in Squares |-> [t \in Squares |->
                    IF \E move \in b.legal_moves :
                          move.from_square = f /\ move.to_square = t
                    THEN 1 ELSE 0]]
    IN  Ravel(mask, NumSquares)

\* mutant of DecodeMoves: from_square and to_square read from the wrong columns
DecodeMovesSwapped(encoded_move) ==
    LET found == ArgWhere(Reshape(encoded_move, NumSquares, NumSquares),
                          NumSquares, NumSquares, 1)
    IN  [k \in 1..Len(found) |-> <<found[k][2], found[k][1]>>]

DecodeMoves(encoded_move) ==
    ArgWhere(Reshape(encoded_move, NumSquares, NumSquares), NumSquares, NumSquares, 1)

----------------------------------------------------------------------------
(* the encoder under test: the inputs of __main__ and the calls it makes *)

MaxWrites == 3

\* the cells __main__ writes, with the two corners and a third row-0 cell
TestCells == {<<12, 28>>, <<6, 21>>, <<0, 0>>, <<63, 63>>, <<0, 63>>}

\* 1 is a set bit; 2 is a value that is neither 0 nor 1
GridValues == {1, 2}

Written(grid) == {cell \in TestCells : grid[cell[1]][cell[2]] # 0}

ForwardIdle ==
    /\ s_shape = None /\ raw_pi = None /\ raw_v = None /\ fwd = None

TrainIdle ==
    /\ examples = 0 /\ batch_size = 0 /\ cuda = 0 /\ epoch = 0 /\ batch_idx = 0
    /\ sample_ids = None /\ out = None /\ total_loss = None /\ grad = <<>>
    /\ params = 0 /\ params_before = 0 /\ steps = 0 /\ events = <<>>
    /\ applied = None /\ calls = 0

Init ==
    /\ pc = "main"
    /\ board \in Boards
    /\ encodedMove = Zeros2(NumSquares, NumSquares)
    /\ ret = None
    /\ raised = "None"
    /\ ForwardIdle
    /\ TrainIdle

CallEncodeBoard ==
    /\ pc = "main"
    /\ ret' = EncodeBoard(board)
    /\ pc' = "EncodeBoard"
    /\ UNCHANGED <<board, encodedMove, raised, forwardVars, trainVars>>

CallEncodeLegalMoves ==
    /\ pc = "main"
    /\ ret' = EncodeLegalMoves(board)
    /\ pc' = "EncodeLegalMoves"
    /\ UNCHANGED <<board, encodedMove, raised, forwardVars, trainVars>>

\* encodedMove[from_square, to_square] = value, on the board of __main__
WriteGrid(cell, value) ==
    /\ pc = "main"
    /\ board = StartBoard
    /\ cell \notin Written(encodedMove)
    /\ Cardinality(Written(encodedMove)) < MaxWrites
    /\ encodedMove' = [encodedMove EXCEPT ![cell[1]][cell[2]] = value]
    /\ UNCHANGED <<pc, board, ret, raised, forwardVars, trainVars>>

CallDecodeMoves ==
    /\ pc = "main"
    /\ board = StartBoard
    /\ ret' = DecodeMoves(Ravel(encodedMove, NumSquares))
    /\ pc' = "DecodeMoves"
    /\ UNCHANGED <<board, encodedMove, raised, forwardVars, trainVars>>

Next ==
    \/ CallEncodeBoard
    \/ CallEncodeLegalMoves
    \/ \E cell \in TestCells, value \in GridValues : WriteGrid(cell, value)
    \/ CallDecodeMoves

Spec == Init /\ [][Next]_vars

----------------------------------------------------------------------------
(* properties of the encoder *)

\* the (from_square, to_square) pairs of the legal moves of b
MovePairs(b) == {<<move.from_square, move.to_square>> : move \in b.legal_moves}

\* the flattened index of a pair
FlatIndex(pair) == pair[1] * NumSquares + pair[2]

\* C1 as stated: the sum of the mask returned by EncodeLegalMoves equals the
\* number of legal moves of the board.
C1_SumIsMoveCount ==
    pc = "EncodeLegalMoves" => Sum(ret) = Cardinality(board.legal_moves)

\* C1 amended: the mask has 4096 entries, entry from*64+to is 1 iff some legal
\* move goes from `from` to `to` and 0 otherwise, and its sum is the number of
\* distinct (from, to) pairs of the legal moves: 20 for the starting position,
\* 0 without legal moves, and the number of legal moves exactly when no two
\* legal moves share their pair.
C1_SumIsPairCount ==
    pc = "EncodeLegalMoves" =>
        /\ DOMAIN ret = 0..(ActionSize - 1)
        /\ \A i \in DOMAIN ret :
              ret[i] = IF \E pair \in MovePairs(board) : FlatIndex(pair) = i
                       THEN 1 ELSE 0
        /\ Sum(ret) = Cardinality(MovePairs(board))
        /\ (Sum(ret) = Cardinality(board.legal_moves)) <=>
              (\A m1, m2 \in board.legal_moves :
                  <<m1.from_square, m1.to_square>> = <<m2.from_square, m2.to_square>>
                      => m1 = m2)
        /\ board = StartBoard => Sum(ret) = 20
        /\ board.legal_moves = {} => Sum(ret) = 0

\* a board with promotions was encoded: eleven legal moves, five set bits
C1_Witness ==
    /\ pc = "EncodeLegalMoves"
    /\ Cardinality(board.legal_moves) = 11
    /\ Sum(ret) = 5

\* C2: for a duplicate-free set of cells written with 1 into an all-zero grid,
\* DecodeMoves of the flattened grid returns exactly those cells, each once,
\* in ascending order of from*64+to; the cells (12,28) and (6,21) decode to
\* <<(6,21), (12,28)>>.
C2_DecodeInvertsSetBits ==
    (pc = "DecodeMoves" /\ \A cell \in TestCells : encodedMove[cell[1]][cell[2]] \in {0, 1}) =>
        /\ Len(ret) = Cardinality(Written(encodedMove))
        /\ {ret[k] : k \in 1..Len(ret)} = Written(encodedMove)
        /\ \A k \in 1..(Len(ret) - 1) : FlatIndex(ret[k]) < FlatIndex(ret[k + 1])
        /\ Written(encodedMove) = {<<12, 28>>, <<6, 21>>} => ret = <<(<<6, 21>>), (<<12, 28>>)>>

\* the grid of __main__ was decoded
C2_Witness ==
    /\ pc = "DecodeMoves"
    /\ Written(encodedMove) = {<<12, 28>>, <<6, 21>>}
    /\ encodedMove[12][28] = 1 /\ encodedMove[6][21] = 1
    /\ Len(ret) = 2

\* the twelve blocks of the feature vector, in the order the claim gives
BlockOrder ==
    << <<WHITE, PAWN>>, <<WHITE, KNIGHT>>, <<WHITE, BISHOP>>, <<WHITE, ROOK>>,
       <<WHITE, QUEEN>>, <<WHITE, KING>>, <<BLACK, PAWN>>, <<BLACK, KNIGHT>>,
       <<BLACK, BISHOP>>, <<BLACK, ROOK>>, <<BLACK, QUEEN>>, <<BLACK, KING>> >>

\* C3: EncodeBoard returns 832 values in {0,1}; entry b*64+sq of the first
\* twelve blocks is 1 iff square sq holds the piece of block b, so an occupied
\* square sets exactly one bit and an empty square none; the last 64 entries
\* are all 1 when white is to move and all 0 otherwise.
C3_FeatureLayout ==
    pc = "EncodeBoard" =>
        /\ DOMAIN ret = 0..831
        /\ \A i \in DOMAIN ret : ret[i] \in {0, 1}
        /\ \A b \in 0..11, sq \in Squares :
              ret[b * 64 + sq] = 1 <=>
                  /\ sq \in DOMAIN board.pieces
                  /\ <<board.pieces[sq].color, board.pieces[sq].piece_type>> = BlockOrder[b + 1]
        /\ \A sq \in Squares :
              Cardinality({b \in 0..11 : ret[b * 64 + sq] = 1})
                  = IF sq \in DOMAIN board.pieces THEN 1 ELSE 0
        /\ \A sq \in Squares : ret[12 * 64 + sq] = IF board.turn = WHITE THEN 1 ELSE 0

\* a board with black to move and pieces of both colours was encoded
C3_Witness ==
    /\ pc = "EncodeBoard"
    /\ board.turn = BLACK
    /\ Cardinality(DOMAIN board.pieces) = 32
    /\ ret[6 * 64 + 48] = 1
    /\ ret[12 * 64] = 0

\* C7 as stated: DecodeMoves of an input holding a value other than 0 and 1
\* raises DecodingError and returns no list.
C7_RejectsNonBinary ==
    (pc = "DecodeMoves" /\ \E cell \in TestCells : encodedMove[cell[1]][cell[2]] \notin {0, 1}) =>
        raised = "DecodingError"

----------------------------------------------------------------------------
(* class ChessNet: forward *)

HiddenSize == 1024

\* f.relu on one entry
Relu(x) == IF x > 0 THEN x ELSE 0

\* nn.Linear(in_features, out_features) applied to a batch: F.linear raises
\* RuntimeError unless the last dimension of the batch is in_features
LinearShape(shape, in_features, out_features) ==
    IF shape[2] = in_features THEN <<shape[1], out_features>> ELSE "RuntimeError"

\* the weight e^x of softmax, kept in the integers as 2^x: softmax uses only
\* that the weights are positive and divided by their sum along dim
ExpWeight(x) == 2 ^ x

\* f.softmax(x, dim) of an n-by-m batch: every entry is the fraction
\* <<weight, sum of the weights along dim>>
Softmax(x, n, m, dim) ==
    LET w == [i \in 0..(n - 1) |-> [j \in 0..(m - 1) |-> ExpWeight(x[i][j])]]
        alongRows == [j \in 0..(m - 1) |-> Sum([i \in 0..(n - 1) |-> w[i][j]])]
        alongColumns == [i \in 0..(n - 1) |-> Sum(w[i])]
    IN  [i \in 0..(n - 1) |-> [j \in 0..(m - 1) |->
            <<w[i][j], IF dim = 0 THEN alongRows[j] ELSE alongColumns[i]>>]]

\* torch.tanh on one entry, by the interval its value lies in
Tanh(x) == IF x = 0 THEN "0" ELSE IF x > 0 THEN "(0,1)" ELSE "(-1,0)"

\* the shape the three hidden layers hand to the output heads, or the error
HiddenShape(shape) ==
    LET h1 == LinearShape(shape, InputSize, HiddenSize)
        h2 == IF h1 = "RuntimeError" THEN h1 ELSE LinearShape(h1, HiddenSize, HiddenSize)
    IN  IF h2 = "RuntimeError" THEN h2 ELSE LinearShape(h2, HiddenSize, HiddenSize)

\* the pair forward returns for head scores out1 and out2 of n examples
Forward(out1, out2, n) ==
    LET pi == [i \in 0..(n - 1) |-> [j \in 0..(ActionSize - 1) |-> Relu(out1[i][j])]]
        v == [i \in 0..(n - 1) |-> Relu(out2[i])]
    IN  [policy |-> Softmax(pi, n, ActionSize, 0),
         value |-> [i \in 0..(n - 1) |-> Tanh(v[i])]]

----------------------------------------------------------------------------
(* forward under test: the batch shapes and head scores it is applied to *)

MaxForwardBatch == 2
MaxScore == 2

\* widths of the input batch: the encoder's 832 and its neighbours
Widths == {InputSize - 1, InputSize, InputSize + 1}

\* rows of out1: a base score everywhere but at one move-pair index
ScoreRows ==
    {[j \in 0..(ActionSize - 1) |-> IF j = 796 THEN hot ELSE base] :
        base \in {-1, 1}, hot \in {0, MaxScore}}

EncoderIdle ==
    /\ board = None /\ encodedMove = None /\ ret = None

InitForward ==
    /\ pc = "forward"
    /\ raised = "None"
    /\ fwd = None
    /\ \E n \in 1..MaxForwardBatch, width \in Widths :
          /\ s_shape = <<n, width>>
          /\ IF width = InputSize
             THEN /\ raw_pi \in [0..(n - 1) -> ScoreRows]
                  /\ raw_v \in [0..(n - 1) -> {-1, 1}]
             ELSE raw_pi = None /\ raw_v = None
    /\ EncoderIdle
    /\ TrainIdle

\* fc1 rejects the batch: the exception leaves forward
ForwardRaise ==
    /\ pc = "forward"
    /\ HiddenShape(s_shape) = "RuntimeError"
    /\ raised' = "RuntimeError"
    /\ pc' = "forward_raised"
    /\ UNCHANGED <<fwd, s_shape, raw_pi, raw_v, encoderVars, trainVars>>

ForwardReturn ==
    /\ pc = "forward"
    /\ HiddenShape(s_shape) # "RuntimeError"
    /\ fwd' = Forward(raw_pi, raw_v, s_shape[1])
    /\ pc' = "forward_returned"
    /\ UNCHANGED <<raised, s_shape, raw_pi, raw_v, encoderVars, trainVars>>

NextForward == ForwardRaise \/ ForwardReturn

SpecForward == InitForward /\ [][NextForward]_vars

----------------------------------------------------------------------------
(* properties of forward *)

RECURSIVE GCD(_, _)
GCD(a, b) == IF b = 0 THEN a ELSE GCD(b, a % b)

FracAdd(a, b) ==
    LET num == a[1] * b[2] + b[1] * a[2]
        den == a[2] * b[2]
        g == GCD(num, den)
    IN  <<num \div g, den \div g>>

\* the sum of the fractions row[lo..hi], in lowest terms
RECURSIVE FracSum(_, _, _)
FracSum(row, lo, hi) ==
    IF lo = hi THEN FracAdd(row[lo], <<0, 1>>)
    ELSE LET mid == (lo + hi) \div 2
         IN  FracAdd(FracSum(row, lo, mid), FracSum(row, mid + 1, hi))

\* C8 as stated: forward on a batch whose width is not 832 fails with a
\* ShapeError and returns nothing.
C8_ShapeError ==
    (pc # "forward" /\ s_shape[2] # 832) =>
        pc = "forward_raised" /\ raised = "ShapeError" /\ fwd = None

\* C9 as stated: the policy forward returns has one row of 4096 entries per
\* example, the entries are non-negative and every row sums to 1.
C9_RowsAreDistributions ==
    pc = "forward_returned" =>
        /\ DOMAIN fwd.policy = 0..(s_shape[1] - 1)
        /\ \A i \in DOMAIN fwd.policy :
              /\ DOMAIN fwd.policy[i] = 0..4095
              /\ \A j \in 0..4095 : fwd.policy[i][j][1] >= 0 /\ fwd.policy[i][j][2] > 0
              /\ FracSum(fwd.policy[i], 0, 4095) = <<1, 1>>

----------------------------------------------------------------------------
(* class ChessNet: train *)

\* range(10): the number of epochs of every call
EpochCount == 10

\* mutant of StepsPerEpoch: the quotient rounded up
StepsPerEpochCeil(n, size) == (n + size - 1) \div size

\* int(len(examples) / batch_size), for size > 0
StepsPerEpoch(n, size) == n \div size

\* np.random.randint(n, size=size): size indices, each in 0..n-1
RandInt(n, size) == [0..(size - 1) -> 0..(n - 1)]

\* self.forward(boards): what the output depends on, the parameters and the
\* examples gathered for the batch
ForwardOf(p, ids) == [params |-> p, batch |-> ids]

\* loss_pi and loss_v of one forward output
LossPi(output) == [term |-> "loss_pi", of |-> output]
LossV(output) == [term |-> "loss_v", of |-> output]

\* l_pi + l_v
TotalLoss(output) == {LossPi(output), LossV(output)}

\* mutant of ZeroGrad: the buffers are left as they are
ZeroGradKeep(g) == g

\* optimizer.zero_grad(): the .grad buffers are cleared
ZeroGrad(g) == <<>>

\* the gradient of a total loss with respect to the parameters, named by the
\* parameters the loss was computed with: no two steps share them
Gradient(loss) == {term.of.params : term \in loss}

\* total_loss.backward(): the gradient of the loss is added to the buffers
Backward(g, loss) == Append(g, Gradient(loss))

\* optimizer.step(): one update of the parameters from the .grad buffers
OptimizerStep(p, g) == p + 1

----------------------------------------------------------------------------
(* train under test: the calls made on one network *)

MaxExamples == 3
MaxBatchSize == 3
MaxTrainCalls == 2

\* values of the third positional argument: 0 (False) and 1 (True, the default)
ThirdArgs == {0, 1}

InitTrain ==
    /\ pc = "ready"
    /\ raised = "None"
    /\ EncoderIdle
    /\ ForwardIdle
    /\ TrainIdle

\* train(examples, batch_size, cuda) is entered: the optimizer is created
TrainCall(n, size, third) ==
    /\ pc \in {"ready", "returned", "train_raised"}
    /\ calls < MaxTrainCalls
    /\ calls' = calls + 1
    /\ examples' = n
    /\ batch_size' = size
    /\ cuda' = third
    /\ params_before' = params
    /\ steps' = 0
    /\ epoch' = 0
    /\ batch_idx' = 0
    /\ raised' = "None"
    /\ sample_ids' = None /\ out' = None /\ total_loss' = None
    /\ events' = <<>> /\ applied' = None
    /\ pc' = "for"
    /\ UNCHANGED <<grad, params, encoderVars, forwardVars>>

\* the next epoch begins: the meters, the progress bar and batch_idx = 0
EpochBegin ==
    /\ pc = "for"
    /\ epoch < EpochCount
    /\ IF batch_size = 0
       THEN /\ raised' = "ZeroDivisionError"
            /\ pc' = "train_raised"
            /\ UNCHANGED <<epoch, batch_idx>>
       ELSE /\ epoch' = epoch + 1
            /\ batch_idx' = 0
            /\ pc' = "while"
            /\ UNCHANGED raised
    /\ UNCHANGED <<examples, batch_size, cuda, sample_ids, out, total_loss, grad,
                   params, params_before, steps, events, applied, calls,
                   encoderVars, forwardVars>>

\* the while test holds: the batch is sampled and gathered
TrainSample(ids) ==
    /\ pc = "while"
    /\ batch_idx < StepsPerEpoch(examples, batch_size)
    /\ sample_ids' = ids
    /\ events' = <<"sample">>
    /\ pc' = "forward"
    /\ UNCHANGED <<raised, examples, batch_size, cuda, epoch, batch_idx, out,
                   total_loss, grad, params, params_before, steps, applied, calls,
                   encoderVars, forwardVars>>

TrainForward ==
    /\ pc = "forward"
    /\ out' = ForwardOf(params, sample_ids)
    /\ events' = Append(events, "forward")
    /\ pc' = "loss"
    /\ UNCHANGED <<raised, examples, batch_size, cuda, epoch, batch_idx, sample_ids,
                   total_loss, grad, params, params_before, steps, applied, calls,
                   encoderVars, forwardVars>>

TrainLoss ==
    /\ pc = "loss"
    /\ total_loss' = TotalLoss(out)
    /\ events' = Append(events, "loss")
    /\ pc' = "zero_grad"
    /\ UNCHANGED <<raised, examples, batch_size, cuda, epoch, batch_idx, sample_ids,
                   out, grad, params, params_before, steps, applied, calls,
                   encoderVars, forwardVars>>

TrainZeroGrad ==
    /\ pc = "zero_grad"
    /\ grad' = ZeroGrad(grad)
    /\ events' = Append(events, "zero_grad")
    /\ pc' = "backward"
    /\ UNCHANGED <<raised, examples, batch_size, cuda, epoch, batch_idx, sample_ids,
                   out, total_loss, params, params_before, steps, applied, calls,
                   encoderVars, forwardVars>>

TrainBackward ==
    /\ pc = "backward"
    /\ grad' = Backward(grad, total_loss)
    /\ events' = Append(events, "backward")
    /\ pc' = "step"
    /\ UNCHANGED <<raised, examples, batch_size, cuda, epoch, batch_idx, sample_ids,
                   out, total_loss, params, params_before, steps, applied, calls,
                   encoderVars, forwardVars>>

\* optimizer.step(), then batch_idx += 1 and the progress bar.  The locals of
\* the loop body are dead from here on: each is assigned again before the
\* next iteration reads it.
TrainStep ==
    /\ pc = "step"
    /\ applied' = grad
    /\ params' = OptimizerStep(params, grad)
    /\ steps' = steps + 1
    /\ batch_idx' = batch_idx + 1
    /\ events' = Append(events, "step")
    /\ sample_ids' = None /\ out' = None /\ total_loss' = None
    /\ pc' = "while"
    /\ UNCHANGED <<raised, examples, batch_size, cuda, epoch, grad, params_before,
                   calls, encoderVars, forwardVars>>

\* the while test fails: bar.finish() ends the epoch
EpochEnd ==
    /\ pc = "while"
    /\ ~(batch_idx < StepsPerEpoch(examples, batch_size))
    /\ pc' = "for"
    /\ UNCHANGED <<raised, trainVars, encoderVars, forwardVars>>

\* range(10) is exhausted: train returns
TrainReturn ==
    /\ pc = "for"
    /\ ~(epoch < EpochCount)
    /\ pc' = "returned"
    /\ UNCHANGED <<raised, trainVars, encoderVars, forwardVars>>

NextTrain ==
    \/ \E n \in 0..MaxExamples, size \in 0..MaxBatchSize, third \in ThirdArgs :
          TrainCall(n, size, third)
    \/ EpochBegin
    \/ \E ids \in RandInt(examples, batch_size) : TrainSample(ids)
    \/ TrainForward
    \/ TrainLoss
    \/ TrainZeroGrad
    \/ TrainBackward
    \/ TrainStep
    \/ EpochEnd
    \/ TrainReturn

SpecTrain == InitTrain /\ [][NextTrain]_vars

----------------------------------------------------------------------------
(* properties of train *)

TrainRunning == pc \in {"for", "while", "forward", "loss", "zero_grad", "backward", "step"}

StepOrder == <<"sample", "forward", "loss", "zero_grad", "backward", "step">>

====
